---------------------------- MODULE Spec2Model ----------------------------
(***************************************************************************)
(* Wiki-Summarizer: the summarization orchestration core                   *)
(* (src/src/summarizer.py) and the pipeline driver (src/src/pipeline.py).   *)
(*                                                                         *)
(* A run is single-threaded.  It is cut into steps at the places where the *)
(* program blocks: a network request, a backoff sleep, the delay between   *)
(* sections.  Python strings are sequences of one-character strings.       *)
(***************************************************************************)
EXTENDS Integers, Sequences, FiniteSets, TLC

VARIABLES
    entry,      \* which program runs: summarizer.main or pipeline.run_pipeline
    hasKey,     \* GROQ_API_KEY is set in the environment
    pc,         \* position of the (single) thread
    json_file,  \* data/raw_wiki_content.json: [exists, doc]
    data,       \* process_all_sections: the loaded mapping (ordered)
    idx,        \* 1-based position of the for loop over data.items()
    attempt,    \* call_groq_api: the loop variable of range(max_retries)
    inflight,   \* completion requests sent and not yet answered
    outcomes,   \* answers received for the current section, in order
    sleeps,     \* backoff sleeps (seconds) of the current section, in order
    result,     \* what summarize_section returned for the current section
    results,    \* what summarize_section returned for each visited section
    summaries,  \* process_all_sections: the summaries dict (ordered)
    processed,  \* process_all_sections: the success counter
    md_file,    \* data/summarized_output.md: [exists, text]
    network,    \* kinds of network request issued so far in the run
    returned,   \* process_all_sections' return value: [done, value]
    exc,        \* the exception that ended the run, or "none"
    run_ok,     \* "pending", then "success" or "failure" as reported
    visits,     \* how often summarize_section was called for each section
    report,     \* the printed pair <<processed, total_sections>>, once printed
    elements,   \* extract_content: the h2/h3/p elements of the page, in order
    pos,        \* extract_content: 1-based position of the loop over elements
    current_h2, \* extract_content: the top-level heading in force
    current_h3, \* extract_content: the subheading in force
    content_dict \* extract_content: the mapping built so far (ordered)

vars == <<entry, hasKey, pc, json_file, data, idx, attempt, inflight, outcomes,
          sleeps, result, results, summaries, processed, md_file, network,
          returned, exc, run_ok, visits, report, elements, pos, current_h2,
          current_h3, content_dict>>

\* the extractor's state
scraper_vars == <<elements, pos, current_h2, current_h3, content_dict>>

\* what no step of the summarizer or of the pipeline driver writes
fixed_vars == <<entry, hasKey, scraper_vars>>

---------------------------------------------------------------------------
(* Program constants.                                                      *)

min_section_length == 50
max_retries == 3
base_delay == 1

(* Bound of the model: the longest input mapping.                          *)
MaxSections == 2

---------------------------------------------------------------------------
(* Python values.                                                          *)

\* Optional[str]: None, or a string.
None == [isNone |-> TRUE, s |-> <<>>]
Str(s) == [isNone |-> FALSE, s |-> s]

\* Truth value of an Optional[str]: None and "" are falsy.
Truthy(v) == ~v.isNone /\ v.s # <<>>

Whitespace == {" ", "\n"}

\* str.strip(): from the first to the last character that is not whitespace
strip(s) ==
    IF \A i \in 1..Len(s) : s[i] \in Whitespace THEN <<>>
    ELSE LET lead  == CHOOSE n \in 0..(Len(s) - 1) :
                          /\ s[n + 1] \notin Whitespace
                          /\ \A j \in 1..n : s[j] \in Whitespace
             trail == CHOOSE n \in 0..(Len(s) - 1) :
                          /\ s[Len(s) - n] \notin Whitespace
                          /\ \A j \in 0..(n - 1) : s[Len(s) - j] \in Whitespace
         IN  SubSeq(s, lead + 1, Len(s) - trail)

\* sep.join(parts)
RECURSIVE join(_, _)
join(sep, parts) ==
    IF parts = <<>> THEN <<>>
    ELSE IF Len(parts) = 1 THEN parts[1]
    ELSE parts[1] \o sep \o join(sep, Tail(parts))

Range(f) == {f[i] : i \in DOMAIN f}

\* sub in s
Contains(s, sub) ==
    \E i \in 0..(Len(s) - Len(sub)) : SubSeq(s, i + 1, i + Len(sub)) = sub

\* s.split('\n')
RECURSIVE split_lines(_)
split_lines(s) ==
    IF \A i \in 1..Len(s) : s[i] # "\n" THEN <<s>>
    ELSE LET k == CHOOSE i \in 1..Len(s) :
                      s[i] = "\n" /\ \A j \in 1..(i - 1) : s[j] # "\n"
         IN  <<SubSeq(s, 1, k - 1)>> \o split_lines(SubSeq(s, k + 1, Len(s)))

---------------------------------------------------------------------------
(* Inputs.  A paragraph is written [lead, body, trail]: lead whitespace    *)
(* characters, body non-whitespace characters, trail whitespace characters;*)
(* Text expands it to the string it stands for.                            *)

Para(l, b, t) == [lead |-> l, body |-> b, trail |-> t]

Text(p) ==
    [i \in 1..p.lead |-> " "] \o [i \in 1..p.body |-> "x"]
        \o [i \in 1..p.trail |-> " "]

ParagraphLists ==
    { <<>>,
      <<Para(0, 50, 0)>>,
      <<Para(1, 49, 1)>>,
      <<Para(0, 24, 0), Para(0, 24, 0)>> }

SectionKeys ==
    { <<"a">>, <<"a", " ", ">", " ", "b">>, <<"a", ">", "b">> }

Sections == [key : SectionKeys, paragraphs : ParagraphLists]

\* An ordered mapping: no key twice.
Documents ==
    UNION { { d \in [1..n -> Sections] :
                \A i, j \in 1..n : i # j => d[i].key # d[j].key }
            : n \in 0..MaxSections }

\* message contents a completion may carry
Contents == { <<>>, <<" ">>, <<"x">>, <<" ", "x", "\n">> }


\* What the extractor can hand over: every kept paragraph is cleaned and has
\* at least 50 characters (scraper.py, is_content_significant).
ExtractorDocuments ==
    { d \in Documents :
        \A i \in 1..Len(d) : \A k \in 1..Len(d[i].paragraphs) :
            LET p == d[i].paragraphs[k]
            IN  p.lead = 0 /\ p.trail = 0 /\ p.body >= 50 }

NoFile == [exists |-> FALSE, doc |-> <<>>]
NoMarkdown == [exists |-> FALSE, text |-> <<>>]
NotReturned == [done |-> FALSE, value |-> <<>>]

---------------------------------------------------------------------------
(* GroqSummarizer: the pure parts.                                         *)

prepare_section_text(paragraphs) ==
    strip(join(<<"\n", "\n">>, [i \in 1..Len(paragraphs) |-> Text(paragraphs[i])]))

\* '\n\n'.join(paragraphs).strip(), of paragraphs given as strings
join_paragraphs(paragraphs) == strip(join(<<"\n", "\n">>, paragraphs))

\* variant: any non-blank text counts as valid
is_section_valid_nonempty(section_text) ==
    Len(strip(section_text)) > 0

is_section_valid(section_text) ==
    Len(strip(section_text)) >= min_section_length

\* 2 ** attempt
RECURSIVE pow2(_)
pow2(n) == IF n = 0 THEN 1 ELSE 2 * pow2(n - 1)

\* variant: a delay that grows linearly
wait_time_linear(k) == base_delay * (2 * k)

\* wait_time = self.base_delay * (2 ** attempt)
wait_time(k) == base_delay * pow2(k)

\* variant: the loop variable outlives the call (kept on the object)
first_attempt_carried(previous) == previous

\* for attempt in range(self.max_retries): every call starts at 0
first_attempt(previous) == 0

\* variant: one iteration too many
range_max_retries_inclusive(k) == k <= max_retries

\* for attempt in range(self.max_retries): the loop has another iteration
range_max_retries(k) == k < max_retries

\* variant: only the first failed attempt is followed by a sleep
sleeps_before_retry_first_only(k) == k < max_retries - 2

\* attempt < self.max_retries - 1: sleep before the next iteration
sleeps_before_retry(k) == k < max_retries - 1

\* variant: the content is returned as received
api_ok_return_untrimmed(content) == Str(content)

\* return result['choices'][0]['message']['content'].strip()
api_ok_return(content) == Str(strip(content))

\* summarize_section: "if summary: return summary / else: return None"
summarize_return(summary) == IF Truthy(summary) THEN summary ELSE None

\* variant: the too-short branch returns an empty string
too_short_return_empty == Str(<<>>)

\* summarize_section: the return of the too-short branch
too_short_return == None

\* variant: the missing key goes unnoticed
load_environment_never_raises(present) == FALSE

\* load_environment raises when GROQ_API_KEY is not set
load_environment_raises(present) == ~present

\* The ordered mapping summaries, as a sequence of <<key, summary>>.
dict_keys(d) == [i \in 1..Len(d) |-> d[i][1]]

\* variant: a new key is put first
dict_set_front(d, k, v) ==
    IF \E i \in 1..Len(d) : d[i][1] = k
    THEN [i \in 1..Len(d) |-> IF d[i][1] = k THEN <<k, v>> ELSE d[i]]
    ELSE <<<<k, v>>>> \o d

\* summaries[section_name] = summary
dict_set(d, k, v) ==
    IF \E i \in 1..Len(d) : d[i][1] = k
    THEN [i \in 1..Len(d) |-> IF d[i][1] = k THEN <<k, v>> ELSE d[i]]
    ELSE Append(d, <<k, v>>)

\* the heading line of one section, without its newline
heading_line(section_name) ==
    IF Contains(section_name, <<">">>)
    THEN <<"#", "#", "#", " ">> \o section_name
    ELSE <<"#", "#", " ">> \o section_name

format_markdown_output(d) ==
    LET output_lines ==
            [i \in 1..(2 * Len(d)) |->
                IF i % 2 = 1
                THEN heading_line(d[(i + 1) \div 2][1]) \o <<"\n">>
                ELSE d[i \div 2][2] \o <<"\n">>]
    IN  strip(join(<<"\n">>, output_lines))

---------------------------------------------------------------------------
(* The state after start-up: the program chosen, the environment, and (for *)
(* summarizer.main) the JSON file an earlier scrape left on disk.          *)

Init ==
    /\ entry \in {"summarizer", "pipeline"}
    /\ hasKey \in BOOLEAN
    /\ pc = "start"
    /\ IF entry = "summarizer"
       THEN json_file \in {NoFile} \cup {[exists |-> TRUE, doc |-> d] : d \in Documents}
       ELSE json_file = NoFile
    /\ data = <<>>
    /\ idx = 1
    /\ attempt = 0
    /\ inflight = 0
    /\ outcomes = <<>>
    /\ sleeps = <<>>
    /\ result = None
    /\ results = <<>>
    /\ summaries = <<>>
    /\ processed = 0
    /\ md_file = NoMarkdown
    /\ network = {}
    /\ returned = NotReturned
    /\ exc = "none"
    /\ run_ok = "pending"
    /\ visits = <<>>
    /\ report = <<>>
    /\ elements = <<>>
    /\ pos = 1
    /\ current_h2 = None
    /\ current_h3 = None
    /\ content_dict = <<>>

\* The run ends with exception e caught by main / run_pipeline / step_3 and
\* reported as a failure.
Fails(e) ==
    /\ exc' = e
    /\ run_ok' = "failure"
    /\ pc' = "done"

batch_vars == <<data, idx, attempt, inflight, outcomes, sleeps, result, results,
                summaries, processed, md_file, returned, visits, report>>

---------------------------------------------------------------------------
(* summarizer.main: the credential is loaded first.                        *)

MainLoadEnvironment ==
    /\ pc = "start" /\ entry = "summarizer"
    /\ IF load_environment_raises(hasKey)
       THEN Fails("config")
       ELSE pc' = "load_json" /\ UNCHANGED <<exc, run_ok>>
    /\ UNCHANGED <<fixed_vars, json_file, network>>
    /\ UNCHANGED batch_vars

(* pipeline.run_pipeline: step 1 scrapes (WikipediaScraper.fetch_page      *)
(* issues the page request), step 2 loads the credential, step 3 runs      *)
(* process_all_sections.                                                   *)

Step1FetchPage ==
    /\ pc = "start" /\ entry = "pipeline"
    /\ network' = network \cup {"page_fetch"}
    /\ pc' = "fetching"
    /\ UNCHANGED <<fixed_vars, json_file, exc, run_ok>>
    /\ UNCHANGED batch_vars

\* scrape() returns and _convert_txt_to_json writes the JSON file
Step1ScrapeDone ==
    /\ pc = "fetching"
    /\ \E d \in ExtractorDocuments : json_file' = [exists |-> TRUE, doc |-> d]
    /\ pc' = "step2"
    /\ UNCHANGED <<fixed_vars, network, exc, run_ok>>
    /\ UNCHANGED batch_vars

\* the request (or the extraction) raises: step_1_scraping returns False
Step1ScrapeFails ==
    /\ pc = "fetching"
    /\ Fails("scrape")
    /\ UNCHANGED <<fixed_vars, json_file, network>>
    /\ UNCHANGED batch_vars

Step2LoadApiKey ==
    /\ pc = "step2"
    /\ IF load_environment_raises(hasKey)
       THEN Fails("config")
       ELSE pc' = "load_json" /\ UNCHANGED <<exc, run_ok>>
    /\ UNCHANGED <<fixed_vars, json_file, network>>
    /\ UNCHANGED batch_vars

---------------------------------------------------------------------------
(* GroqSummarizer.process_all_sections                                     *)

\* data = self.load_json_data(input_file); summaries = {}; processed = 0
LoadJson ==
    /\ pc = "load_json"
    /\ IF json_file.exists
       THEN /\ data' = json_file.doc
            /\ summaries' = <<>>
            /\ processed' = 0
            /\ idx' = 1
            /\ visits' = [i \in 1..Len(json_file.doc) |-> 0]
            /\ pc' = "loop_head"
            /\ UNCHANGED <<exc, run_ok>>
       ELSE /\ Fails("load")
            /\ UNCHANGED <<data, summaries, processed, idx, visits>>
    /\ UNCHANGED <<fixed_vars, json_file, attempt, inflight, outcomes, sleeps,
                   result, results, md_file, network, returned, report>>

\* The next iteration of the for loop calls summarize_section, which either
\* returns at once (too short) or enters call_groq_api.
BeginSection ==
    /\ pc = "loop_head" /\ idx <= Len(data)
    /\ outcomes' = <<>>
    /\ sleeps' = <<>>
    /\ attempt' = first_attempt(attempt)
    /\ visits' = [visits EXCEPT ![idx] = @ + 1]
    /\ IF is_section_valid(prepare_section_text(data[idx].paragraphs))
       THEN pc' = "api_loop" /\ result' = None
       ELSE pc' = "section_returned" /\ result' = too_short_return
    /\ UNCHANGED <<fixed_vars, json_file, data, idx, inflight, results,
                   summaries, processed, md_file, network, returned, report, exc, run_ok>>

\* requests.post(...) is sent
IssueCall ==
    /\ pc = "api_loop" /\ range_max_retries(attempt)
    /\ inflight' = inflight + 1
    /\ network' = network \cup {"completion"}
    /\ pc' = "in_flight"
    /\ UNCHANGED <<fixed_vars, json_file, data, idx, attempt, outcomes, sleeps,
                   result, results, summaries, processed, md_file, returned, visits, report,
                   exc, run_ok>>

\* the for loop is exhausted: call_groq_api returns None
ExhaustRetries ==
    /\ pc = "api_loop" /\ ~range_max_retries(attempt)
    /\ result' = summarize_return(None)
    /\ pc' = "section_returned"
    /\ UNCHANGED <<fixed_vars, json_file, data, idx, attempt, inflight, outcomes,
                   sleeps, results, summaries, processed, md_file, network,
                   returned, visits, report, exc, run_ok>>

Answered(kind, content) ==
    /\ pc = "in_flight"
    /\ inflight' = inflight - 1
    /\ outcomes' = Append(outcomes, [kind |-> kind, content |-> content])

\* the failed attempt sleeps, then continues
Backoff ==
    /\ sleeps' = Append(sleeps, wait_time(attempt))
    /\ pc' = "backoff"
    /\ UNCHANGED attempt

\* variant: a failed attempt that does not sleep is not counted
ContinueLoopNoCount ==
    /\ attempt' = attempt
    /\ pc' = "api_loop"
    /\ UNCHANGED sleeps

\* the failed attempt continues without a sleep
ContinueLoop ==
    /\ attempt' = attempt + 1
    /\ pc' = "api_loop"
    /\ UNCHANGED sleeps

rest_vars == <<fixed_vars, json_file, data, idx, results, summaries,
               processed, md_file, network, returned, visits, report>>

\* status 200 and a body of the expected shape
RespondOk ==
    /\ \E c \in Contents :
        /\ Answered("ok", c)
        /\ result' = summarize_return(api_ok_return(c))
    /\ pc' = "section_returned"
    /\ UNCHANGED <<attempt, sleeps, exc, run_ok>>
    /\ UNCHANGED rest_vars

\* status 200 and a JSON body without choices[0].message.content (a body
\* that is not JSON at all is left out: what response.json() raises then
\* depends on the installed requests version): the
\* subscript raises KeyError / IndexError, which nothing below
\* run_pipeline's step 3 (or main) catches
RespondMalformed ==
    /\ Answered("malformed", <<>>)
    /\ Fails("KeyError")
    /\ UNCHANGED <<attempt, sleeps, result>>
    /\ UNCHANGED rest_vars

\* status 429
RespondRateLimited ==
    /\ Answered("429", <<>>)
    /\ Backoff
    /\ UNCHANGED <<result, exc, run_ok>>
    /\ UNCHANGED rest_vars

\* any other status
RespondOtherStatus ==
    /\ Answered("500", <<>>)
    /\ IF sleeps_before_retry(attempt) THEN Backoff ELSE ContinueLoop
    /\ UNCHANGED <<result, exc, run_ok>>
    /\ UNCHANGED rest_vars

\* variant: the request that timed out is left pending
RespondTimeoutStillPending ==
    /\ pc = "in_flight"
    /\ inflight' = inflight
    /\ outcomes' = Append(outcomes, [kind |-> "timeout", content |-> <<>>])
    /\ IF sleeps_before_retry(attempt) THEN Backoff ELSE ContinueLoop
    /\ UNCHANGED <<result, exc, run_ok>>
    /\ UNCHANGED rest_vars

\* requests.exceptions.Timeout
RespondTimeout ==
    /\ Answered("timeout", <<>>)
    /\ IF sleeps_before_retry(attempt) THEN Backoff ELSE ContinueLoop
    /\ UNCHANGED <<result, exc, run_ok>>
    /\ UNCHANGED rest_vars

\* requests.exceptions.RequestException
RespondRequestError ==
    /\ Answered("error", <<>>)
    /\ IF sleeps_before_retry(attempt) THEN Backoff ELSE ContinueLoop
    /\ UNCHANGED <<result, exc, run_ok>>
    /\ UNCHANGED rest_vars

\* time.sleep(wait_time) returns; continue
BackoffDone ==
    /\ pc = "backoff"
    /\ attempt' = attempt + 1
    /\ pc' = "api_loop"
    /\ UNCHANGED <<fixed_vars, json_file, data, idx, inflight, outcomes, sleeps,
                   result, results, summaries, processed, md_file, network,
                   returned, visits, report, exc, run_ok>>

\* variant: the counter counts every section, summarized or not
RecordResultCountAll ==
    /\ pc = "section_returned"
    /\ results' = Append(results, result)
    /\ IF Truthy(result)
       THEN summaries' = dict_set(summaries, data[idx].key, result.s)
       ELSE UNCHANGED summaries
    /\ processed' = processed + 1
    /\ pc' = "throttle"
    /\ UNCHANGED <<fixed_vars, json_file, data, idx, attempt, inflight, outcomes,
                   sleeps, result, md_file, network, returned, visits, report, exc, run_ok>>

\* if summary: summaries[section_name] = summary; processed += 1
RecordResult ==
    /\ pc = "section_returned"
    /\ results' = Append(results, result)
    /\ IF Truthy(result)
       THEN /\ summaries' = dict_set(summaries, data[idx].key, result.s)
            /\ processed' = processed + 1
       ELSE UNCHANGED <<summaries, processed>>
    /\ pc' = "throttle"
    /\ UNCHANGED <<fixed_vars, json_file, data, idx, attempt, inflight, outcomes,
                   sleeps, result, md_file, network, returned, visits, report, exc, run_ok>>

\* time.sleep(0.5) returns; next iteration
ThrottleDone ==
    /\ pc = "throttle"
    /\ idx' = idx + 1
    /\ pc' = "loop_head"
    /\ UNCHANGED <<fixed_vars, json_file, data, attempt, inflight, outcomes,
                   sleeps, result, results, summaries, processed, md_file,
                   network, returned, visits, report, exc, run_ok>>

\* After the loop: format and save if there is a summary; return summaries.
\* main returns 0, and step_3_summarization True, exactly if it is non-empty.
FinishBatch ==
    /\ pc = "loop_head" /\ idx > Len(data)
    /\ IF summaries # <<>>
       THEN /\ md_file' = [exists |-> TRUE, text |-> format_markdown_output(summaries)]
            /\ run_ok' = "success"
       ELSE /\ UNCHANGED md_file
            /\ run_ok' = "failure"
    /\ report' = <<processed, Len(data)>>
    /\ returned' = [done |-> TRUE, value |-> summaries]
    /\ pc' = "done"
    /\ UNCHANGED <<fixed_vars, json_file, data, idx, attempt, inflight, outcomes,
                   sleeps, result, results, summaries, processed, network, exc, visits>>

\* variant: the handler saves what was collected before it reports
InterruptSalvaging ==
    /\ pc \in {"in_flight", "backoff", "throttle"}
    /\ exc' = "KeyboardInterrupt"
    /\ inflight' = 0
    /\ pc' = "done"
    /\ run_ok' = IF entry = "pipeline" THEN "failure" ELSE "killed"
    /\ md_file' = IF summaries # <<>>
                  THEN [exists |-> TRUE, text |-> format_markdown_output(summaries)]
                  ELSE md_file
    /\ UNCHANGED <<fixed_vars, json_file, data, idx, attempt, outcomes, sleeps,
                   result, results, summaries, processed, network,
                   returned, visits, report>>

\* A user interrupt (KeyboardInterrupt) arrives while the thread waits in
\* requests.post, in a backoff sleep or in the delay between sections.  It
\* is no Exception: no handler of call_groq_api, of main or of
\* step_3_summarization catches it.  run_pipeline catches it and reports
\* failure; summarizer.main is ended by it.
Interrupt ==
    /\ pc \in {"in_flight", "backoff", "throttle"}
    /\ exc' = "KeyboardInterrupt"
    /\ inflight' = 0
    /\ pc' = "done"
    /\ run_ok' = IF entry = "pipeline" THEN "failure" ELSE "killed"
    /\ UNCHANGED <<fixed_vars, json_file, data, idx, attempt, outcomes, sleeps,
                   result, results, summaries, processed, md_file, network,
                   returned, visits, report>>

Next ==
    \/ MainLoadEnvironment
    \/ Step1FetchPage
    \/ Step1ScrapeDone
    \/ Step1ScrapeFails
    \/ Step2LoadApiKey
    \/ LoadJson
    \/ BeginSection
    \/ IssueCall
    \/ ExhaustRetries
    \/ RespondOk
    \/ RespondMalformed
    \/ RespondRateLimited
    \/ RespondOtherStatus
    \/ RespondTimeout
    \/ RespondRequestError
    \/ BackoffDone
    \/ RecordResult
    \/ ThrottleDone
    \/ FinishBatch
    \/ Interrupt

Spec == Init /\ [][Next]_vars

----------------------------------------------------------------------------
(* WikipediaScraper.extract_content, one element of the page at a time.    *)

\* a string literal as a sequence of characters
Chars(s) == [i \in 1..Len(s) |-> SubSeq(s, i, i)]

SKIP_SECTIONS ==
    {Chars("Contents"), Chars("References"), Chars("External links"),
     Chars("See also"), Chars("Further reading"), Chars("Notes")}

\* is_content_significant(self, text, min_length = 50)
min_length == 50

Digits == {"0", "1", "2", "3", "4", "5", "6", "7", "8", "9"}

\* text.replace(old, '')
RECURSIVE replace(_, _)
replace(text, old) ==
    IF Len(text) < Len(old) THEN text
    ELSE IF SubSeq(text, 1, Len(old)) = old
         THEN replace(SubSeq(text, Len(old) + 1, Len(text)), old)
         ELSE <<Head(text)>> \o replace(Tail(text), old)

\* re.sub(r'\[\d+\]', '', text)
RECURSIVE remove_citations(_)
remove_citations(text) ==
    IF text = <<>> THEN <<>>
    ELSE IF Head(text) # "[" THEN <<Head(text)>> \o remove_citations(Tail(text))
    ELSE LET close == {n \in 3..Len(text) :
                          /\ text[n] = "]"
                          /\ \A i \in 2..(n - 1) : text[i] \in Digits}
         IN  IF close = {}
             THEN <<Head(text)>> \o remove_citations(Tail(text))
             ELSE remove_citations(SubSeq(text, (CHOOSE n \in close : TRUE) + 1,
                                          Len(text)))

\* text.split(): the maximal runs of characters that are not whitespace
RECURSIVE split(_)
split(text) ==
    IF text = <<>> THEN <<>>
    ELSE IF Head(text) \in Whitespace THEN split(Tail(text))
    ELSE LET n == CHOOSE n \in 1..Len(text) :
                      /\ \A i \in 1..n : text[i] \notin Whitespace
                      /\ n = Len(text) \/ text[n + 1] \in Whitespace
         IN  <<SubSeq(text, 1, n)>> \o split(SubSeq(text, n + 1, Len(text)))

\* clean_text: citation numbers removed, whitespace collapsed
clean_text(text) == strip(join(<<" ">>, split(remove_citations(text))))

\* element.get_text(strip=True).replace('[edit]', ''), of the text got
heading_text(text) == replace(text, Chars("[edit]"))

\* variant: any non-blank paragraph counts as significant
is_content_significant_nonempty(text) == Len(strip(text)) > 0

is_content_significant(text) == Len(strip(text)) >= min_length

UpperCase == Chars("ABCDEFGHIJKLMNOPQRSTUVWXYZ")
LowerCase == Chars("abcdefghijklmnopqrstuvwxyz")

\* str.lower()
lower(text) ==
    [i \in 1..Len(text) |->
        IF \E k \in 1..Len(UpperCase) : UpperCase[k] = text[i]
        THEN LowerCase[CHOOSE k \in 1..Len(UpperCase) : UpperCase[k] = text[i]]
        ELSE text[i]]

\* any(skip in para_text.lower() for skip in [...])
is_boilerplate(para_text) ==
    \E skip \in {Chars("coordinates:"), Chars("wikimedia commons"),
                 Chars("category:"), Chars("this article")} :
        Contains(lower(para_text), skip)

\* f"{current_h2} > {current_h3}" if current_h3 else current_h2
section_key(h2, h3) ==
    IF Truthy(h3) THEN h2.s \o Chars(" > ") \o h3.s ELSE h2.s

\* content_dict.setdefault(key, [])
setdefault(d, key) ==
    IF \E i \in 1..Len(d) : d[i][1] = key THEN d ELSE Append(d, <<key, <<>>>>)

\* content_dict.setdefault(key, []).append(para_text)
setdefault_append(d, key, para_text) ==
    [i \in 1..Len(setdefault(d, key)) |->
        IF setdefault(d, key)[i][1] = key
        THEN <<key, Append(setdefault(d, key)[i][2], para_text)>>
        ELSE setdefault(d, key)[i]]

\* variant: a skipped heading leaves the section that was open
skipped_h2_kept(previous) == previous

\* current_h2 = None, on a heading of SKIP_SECTIONS
skipped_h2(previous) == None

\* The pages: at most MaxElements of these elements, in any order.
MaxElements == 3

Fill(n) == [i \in 1..n |-> "x"]

HeadingTexts ==
    {Chars("History[edit]"), Chars("References[edit]"), Chars("References[1][edit]")}

SubheadingTexts == {Chars("Early life[edit]")}

ParagraphTexts ==
    {Chars(" Alexander [12]  ") \o Fill(min_length - 5) \o Chars(" \n"),
     Chars("Short."),
     Chars("[12] ") \o Fill(min_length - 1),
     Chars("Category: ") \o Fill(min_length - 5)}

Elements ==
    {[name |-> "h2", text |-> t] : t \in HeadingTexts}
        \cup {[name |-> "h3", text |-> t] : t \in SubheadingTexts}
        \cup {[name |-> "p", text |-> t] : t \in ParagraphTexts}

Pages == UNION {[1..n -> Elements] : n \in 0..MaxElements}

\* everything but the extractor's state and pc
summarizer_vars == <<entry, hasKey, json_file, data, idx, attempt, inflight,
                     outcomes, sleeps, result, results, summaries, processed,
                     md_file, network, returned, exc, run_ok, visits, report>>

\* extract_content is entered with a page fetched by the pipeline
ExtractInit ==
    /\ entry = "pipeline"
    /\ hasKey \in BOOLEAN
    /\ pc = "extracting"
    /\ json_file = NoFile
    /\ data = <<>>
    /\ idx = 1
    /\ attempt = 0
    /\ inflight = 0
    /\ outcomes = <<>>
    /\ sleeps = <<>>
    /\ result = None
    /\ results = <<>>
    /\ summaries = <<>>
    /\ processed = 0
    /\ md_file = NoMarkdown
    /\ network = {"page_fetch"}
    /\ returned = NotReturned
    /\ exc = "none"
    /\ run_ok = "pending"
    /\ visits = <<>>
    /\ report = <<>>
    /\ elements \in Pages
    /\ pos = 1
    /\ current_h2 = Str(Chars("Introduction"))
    /\ current_h3 = None
    /\ content_dict = <<>>

AtElement(name) ==
    /\ pc = "extracting"
    /\ pos <= Len(elements)
    /\ elements[pos].name = name
    /\ pos' = pos + 1
    /\ UNCHANGED <<pc, elements, summarizer_vars>>

\* if element.name == 'h2'
ExtractH2 ==
    /\ AtElement("h2")
    /\ IF heading_text(elements[pos].text) \in SKIP_SECTIONS
       THEN /\ current_h2' = skipped_h2(current_h2)
            /\ current_h3' = None
            /\ UNCHANGED content_dict
       ELSE /\ current_h2' = Str(clean_text(heading_text(elements[pos].text)))
            /\ current_h3' = None
            /\ content_dict' = setdefault(content_dict,
                                          clean_text(heading_text(elements[pos].text)))

\* elif element.name == 'h3'
ExtractH3 ==
    /\ AtElement("h3")
    /\ current_h3' = Str(clean_text(heading_text(elements[pos].text)))
    /\ UNCHANGED <<current_h2, content_dict>>

\* elif element.name == 'p'
ExtractP ==
    /\ AtElement("p")
    /\ IF \/ ~is_content_significant(clean_text(elements[pos].text))
          \/ is_boilerplate(clean_text(elements[pos].text))
          \/ current_h2.isNone
       THEN UNCHANGED content_dict
       ELSE content_dict' = setdefault_append(content_dict,
                                              section_key(current_h2, current_h3),
                                              clean_text(elements[pos].text))
    /\ UNCHANGED <<current_h2, current_h3>>

\* return content_dict
ExtractReturn ==
    /\ pc = "extracting"
    /\ pos > Len(elements)
    /\ pc' = "extracted"
    /\ UNCHANGED <<scraper_vars, summarizer_vars>>

ExtractNext ==
    \/ ExtractH2
    \/ ExtractH3
    \/ ExtractP
    \/ ExtractReturn

ExtractSpec == ExtractInit /\ [][ExtractNext]_vars

---------------------------------------------------------------------------
(* Vocabulary of the properties.                                           *)

\* the thread is inside the loop body for section idx
InSection == pc \in {"api_loop", "in_flight", "backoff", "section_returned", "throttle"}

\* summarize_section has returned for section idx
SectionReturned == pc \in {"section_returned", "throttle"}

\* remote calls made so far for the current section
Calls == Len(outcomes) + inflight

\* length of the section's paragraphs joined by blank lines and trimmed
TextLen(i) == Len(prepare_section_text(data[i].paragraphs))

Kinds == [k \in 1..Len(outcomes) |-> outcomes[k].kind]

AllKind(kind) == \A k \in 1..Len(outcomes) : outcomes[k].kind = kind

\* the keys of the first n sections whose summarize_section result is a summary
RECURSIVE SucceededKeys(_)
SucceededKeys(n) ==
    IF n = 0 THEN <<>>
    ELSE IF Truthy(results[n])
         THEN Append(SucceededKeys(n - 1), data[n].key)
         ELSE SucceededKeys(n - 1)

\* a Markdown line is a heading if it starts with '#'; its key follows the
\* '#'s and one blank
HeadingKey(line) ==
    LET first == CHOOSE i \in 1..Len(line) :
                     line[i] # "#" /\ \A j \in 1..(i - 1) : line[j] = "#"
    IN  SubSeq(line, first + 1, Len(line))

MdHeadingKeys(text) ==
    LET lines == split_lines(text)
        IsHeading(l) == l # <<>> /\ l[1] = "#"
    IN  [i \in 1..Len(SelectSeq(lines, IsHeading)) |->
            HeadingKey(SelectSeq(lines, IsHeading)[i])]

---------------------------------------------------------------------------
\* the run reached the batch loop and no user interrupt ended it
BatchEnded ==
    pc = "done" /\ exc \notin {"config", "load", "scrape", "KeyboardInterrupt"}

\* C1: a failure below the section boundary never aborts the batch: once
\* the input is loaded, whatever the remote calls answer, the run ends with
\* process_all_sections having visited every section and returned the
\* summaries collected.
C1_BatchNeverAborts ==
    BatchEnded =>
        /\ returned.done
        /\ Len(results) = Len(data)
        /\ returned.value = summaries

\* C2: when every answer is HTTP 500, a valid section gets exactly
\* max_retries remote calls, summarize_section returns None, and the section
\* is not in the output.
C2_Always500 ==
    (InSection /\ TextLen(idx) >= min_section_length /\ AllKind("500")) =>
        /\ Calls <= max_retries
        /\ SectionReturned =>
            /\ Len(outcomes) = max_retries
            /\ result = None
        /\ pc = "throttle" => data[idx].key \notin Range(dict_keys(summaries))

C2_Witness ==
    /\ pc = "throttle"
    /\ TextLen(idx) >= min_section_length
    /\ Kinds = <<"500", "500", "500">>
    /\ summaries = <<>>

C4_TooShortNoCall ==
    (InSection /\ TextLen(idx) < min_section_length) =>
        /\ SectionReturned
        /\ Calls = 0
        /\ result = None

C4_Witness ==
    /\ pc = "throttle"
    /\ idx = 2
    /\ data[1].paragraphs = <<>>
    /\ data[2].paragraphs = <<Para(1, 49, 1)>>
    /\ results = <<None, None>>
    /\ network = {}

\* C5: the keys of the summaries mapping are exactly the sections that
\* succeeded so far, in input order; so are the keys of the returned
\* mapping and the headings of the rendered Markdown.
C5_OrderPreserved ==
    /\ Len(results) <= Len(data)
    /\ dict_keys(summaries) = SucceededKeys(Len(results))
    /\ returned.done =>
        /\ Len(results) = Len(data)
        /\ dict_keys(returned.value) = SucceededKeys(Len(data))
        /\ md_file.exists => MdHeadingKeys(md_file.text) = SucceededKeys(Len(data))

C5_Witness ==
    /\ returned.done
    /\ md_file.exists
    /\ Len(data) = 2
    /\ dict_keys(returned.value) = <<<<"a", " ", ">", " ", "b">>, <<"a">>>>
    /\ MdHeadingKeys(md_file.text) = <<<<"a", " ", ">", " ", "b">>, <<"a">>>>

\* the current section's last answer was a well-formed HTTP 200
LastOk == outcomes # <<>> /\ outcomes[Len(outcomes)].kind = "ok"

LastContent == outcomes[Len(outcomes)].content

\* every remote attempt of the current (valid) section failed
Exhausted ==
    /\ SectionReturned
    /\ TextLen(idx) >= min_section_length
    /\ \A k \in 1..Len(outcomes) : outcomes[k].kind # "ok"

\* C6 as stated: after a well-formed HTTP 200 the summarizer returns the
\* trimmed content and the orchestrator records the section with exactly
\* that text, for every content string, the empty one included.
C6_OkAlwaysRecorded ==
    (SectionReturned /\ LastOk) =>
        /\ result = Str(strip(LastContent))
        /\ pc = "throttle" =>
               <<data[idx].key, strip(LastContent)>> \in Range(summaries)

\* C6 as amended: a well-formed HTTP 200 is the last call of its section;
\* if its trimmed content is not empty, summarize_section returns it and the
\* section is recorded with exactly that text; if it is empty,
\* summarize_section returns None and the section is left out.
C6_OkRecordedUnlessBlank ==
    /\ \A k \in 1..Len(outcomes) :
           outcomes[k].kind = "ok" =>
               /\ k = Len(outcomes)
               /\ inflight = 0
               /\ pc \notin {"api_loop", "in_flight", "backoff"}
    /\ (SectionReturned /\ LastOk) =>
           IF strip(LastContent) # <<>>
           THEN /\ result = Str(strip(LastContent))
                /\ pc = "throttle" =>
                       <<data[idx].key, strip(LastContent)>> \in Range(summaries)
           ELSE /\ result = None
                /\ pc = "throttle" =>
                       data[idx].key \notin Range(dict_keys(summaries))

C6_Witness ==
    /\ pc = "throttle"
    /\ LastOk
    /\ LastContent = <<" ", "x", "\n">>
    /\ result = Str(<<"x">>)
    /\ <<data[idx].key, <<"x">>>> \in Range(summaries)

\* C7: if no section is summarized, process_all_sections returns an empty
\* mapping without raising, writes no output file, and the run is reported
\* unsuccessful; if at least one section is summarized, the output file is
\* written and the run is reported successful.
C7_RunOutcome ==
    BatchEnded =>
        IF \E i \in 1..Len(results) : Truthy(results[i])
        THEN md_file.exists /\ run_ok = "success"
        ELSE exc = "none" =>
                 /\ returned.done /\ returned.value = <<>>
                 /\ ~md_file.exists
                 /\ run_ok = "failure"

\* C8 as stated: when the API key is absent, no network request of any
\* kind precedes the report of the configuration error.
C8_NoNetworkBeforeConfigError ==
    exc = "config" => network = {}

\* C8 as amended: when the API key is absent no completion call is ever
\* issued and the run is reported unsuccessful; summarizer.main issues no
\* network request at all, while run_pipeline has issued the page fetch of
\* step 1 before step 2 reports the missing credential.
C8_NoCompletionWithoutKey ==
    ~hasKey =>
        /\ "completion" \notin network
        /\ inflight = 0
        /\ pc = "done" => run_ok = "failure"
        /\ entry = "summarizer" => network = {}
        /\ (entry = "pipeline" /\ exc = "config") => network = {"page_fetch"}

C8_Witness ==
    /\ ~hasKey
    /\ entry = "pipeline"
    /\ exc = "config"
    /\ run_ok = "failure"
    /\ network = {"page_fetch"}

C10_HeadingLevelBySeparator ==
    md_file.exists =>
        \A i \in 1..Len(returned.value) :
            LET key == returned.value[i][1]
                line == split_lines(md_file.text)[4 * i - 3]
            IN  line = (IF Contains(key, <<" ", ">", " ">>)
                        THEN <<"#", "#", "#", " ">>
                        ELSE <<"#", "#", " ">>) \o key

\* C11: the batch ends, and when it has ended every section of the input
\* has been passed to summarize_section exactly once.
C11_EverySectionVisitedOnce ==
    /\ \A i \in 1..Len(visits) : visits[i] <= 1
    /\ BatchEnded => \A i \in 1..Len(data) : visits[i] = 1

\* C12: a user interrupt during a remote call, a backoff sleep or the delay
\* between sections ends the batch at once: no later section is visited,
\* process_all_sections does not return, nothing is written to the output
\* file, and the pipeline reports the run as unsuccessful.
C12_InterruptAborts ==
    exc = "KeyboardInterrupt" =>
        /\ pc = "done"
        /\ inflight = 0
        /\ ~returned.done
        /\ ~md_file.exists
        /\ report = <<>>
        /\ \A i \in 1..Len(data) : visits[i] = (IF i <= idx THEN 1 ELSE 0)
        /\ Len(results) \in {idx - 1, idx}
        /\ entry = "pipeline" => run_ok = "failure"

C12_Witness ==
    /\ exc = "KeyboardInterrupt"
    /\ entry = "pipeline"
    /\ Len(data) = 2
    /\ idx = 1
    /\ summaries # <<>>
    /\ run_ok = "failure"

\* C14: at most one completion call is in flight, and only while the thread
\* waits for it: a call is issued only after the previous one was answered
\* or timed out.
C14_OneCallInFlight ==
    /\ inflight \in {0, 1}
    /\ inflight = 1 <=> pc = "in_flight"
    /\ pc = "in_flight" => Len(outcomes) = attempt

C14_Witness ==
    /\ pc = "in_flight"
    /\ inflight = 1
    /\ idx = 2
    /\ Len(results) = 1
    /\ Kinds = <<"timeout", "429">>

\* the failed attempts of the current section: the outcomes that are not 200
FailedAttempts == {k \in 1..Len(outcomes) : outcomes[k].kind \notin {"ok", "malformed"}}

\* C15: the backoff is the same for every kind of retryable failure: after
\* failed attempt k (0-based, every k below max_retries) the summarizer
\* sleeps exactly base_delay*2^k, be it a 429, another status, a timeout or
\* a transport error.
C15_UniformBackoff ==
    InSection =>
        /\ Len(sleeps) = Cardinality(FailedAttempts)
        /\ \A k \in 1..Len(sleeps) : sleeps[k] = base_delay * pow2(k - 1)

NoOk == \A k \in 1..Len(outcomes) : outcomes[k].kind # "ok"

\* summarize_section has returned for a section long enough to be sent
CallLoopReturned == SectionReturned /\ TextLen(idx) >= min_section_length

\* C16 as stated: at most max_retries calls per section, and exactly
\* max_retries calls if and only if no outcome is a 200, the result then
\* being the failure result.
C16_BudgetSpentIffNoOk ==
    /\ InSection => Calls <= max_retries
    /\ CallLoopReturned =>
           /\ Calls = max_retries <=> NoOk
           /\ NoOk => result = None

\* C16: every failed attempt, of whatever kind, consumes one unit of the
\* budget: the attempt counter equals the number of failed attempts, a
\* section makes at most max_retries calls, makes exactly max_retries when
\* no outcome is a 200 (and then returns None), and a 200 is the last call
\* of its section, possibly the max_retries-th.
C16_BudgetPerFailedAttempt ==
    /\ InSection => Calls <= max_retries
    /\ pc = "api_loop" => attempt = Cardinality(FailedAttempts)
    /\ InSection => \A k \in 1..Len(outcomes) :
           outcomes[k].kind = "ok" => k = Len(outcomes) /\ SectionReturned
    /\ CallLoopReturned =>
           /\ NoOk => Calls = max_retries /\ result = None
           /\ Calls < max_retries => LastOk

C16_Witness ==
    /\ CallLoopReturned
    /\ Kinds = <<"timeout", "429", "error">>
    /\ result = None

\* C17: every section starts with a full, fresh attempt budget and backoff
\* schedule, whatever earlier sections consumed: its counter equals its own
\* failed attempts, its delays start again at base_delay*2^0, a section of
\* which every attempt failed made max_retries calls; and no step changes
\* or removes a summary recorded for an earlier section.
C17_FreshBudgetPerSection ==
    /\ [](/\ pc = "api_loop" => attempt = Len(outcomes)
          /\ InSection => \A k \in 1..Len(sleeps) :
                 /\ k <= Len(outcomes)
                 /\ sleeps[k] = base_delay * pow2(k - 1)
          /\ Exhausted => Len(outcomes) = max_retries)
    /\ [][\A k \in 1..Len(summaries) :
              /\ k <= Len(summaries')
              /\ summaries'[k] = summaries[k]]_vars

C17_Witness ==
    /\ idx = 2
    /\ TextLen(1) >= min_section_length
    /\ results = <<None>>
    /\ SectionReturned
    /\ Kinds = <<"500", "500", "ok">>
    /\ sleeps = <<1, 2>>
    /\ Truthy(result)

\* the sections the loop has entered so far
Visited == {i \in 1..Len(visits) : visits[i] > 0}

\* C18: at every point of the batch loop the success counter equals the
\* number of entries of summaries and is at most the number of sections
\* visited so far, which is at most the total; the pair reported at the end
\* is (entries of the returned mapping, sections of the input).
C18_CounterMatchesSummaries ==
    /\ processed = Len(summaries)
    /\ processed <= Cardinality(Visited)
    /\ Cardinality(Visited) <= Len(data)
    /\ Len(results) <= Cardinality(Visited)
    /\ processed = Cardinality({i \in 1..Len(results) : Truthy(results[i])})
    /\ returned.done <=> report # <<>>
    /\ returned.done => report = <<Len(returned.value), Len(data)>>

C18_Witness ==
    /\ returned.done
    /\ Len(data) = 2
    /\ ~Truthy(results[1])
    /\ Truthy(results[2])
    /\ report = <<1, 2>>

\* the last top-level heading before element i, 0 if there is none
LastH2(i) ==
    IF \E j \in 1..(i - 1) : elements[j].name = "h2"
    THEN CHOOSE j \in 1..(i - 1) :
             /\ elements[j].name = "h2"
             /\ \A m \in (j + 1)..(i - 1) : elements[m].name # "h2"
    ELSE 0

\* element i follows a top-level heading of the skip list, with no other
\* top-level heading in between
UnderSkipped(i) ==
    /\ LastH2(i) # 0
    /\ heading_text(elements[LastH2(i)].text) \in SKIP_SECTIONS

\* the paragraphs filed so far, over all keys
FiledParagraphs ==
    Cardinality({ik \in (1..Len(content_dict)) \X (1..Len(elements)) :
                     ik[2] <= Len(content_dict[ik[1]][2])})

\* C19: once a top-level heading of the skip list is seen, every paragraph
\* up to the next top-level heading that is not on the list is dropped,
\* also after a subheading inside the skipped section, and no key is
\* created for it: the mapping does not change there, and the paragraphs
\* filed are exactly the significant, non-boilerplate ones outside.
C19_SkippedSectionDropped ==
    /\ [](/\ current_h2.isNone <=> UnderSkipped(pos)
          /\ FiledParagraphs =
                 Cardinality({i \in 1..(pos - 1) :
                     /\ elements[i].name = "p"
                     /\ is_content_significant(clean_text(elements[i].text))
                     /\ ~is_boilerplate(clean_text(elements[i].text))
                     /\ ~UnderSkipped(i)}))
    /\ [][(/\ pos <= Len(elements)
           /\ UnderSkipped(pos)
           /\ \/ elements[pos].name # "h2"
              \/ heading_text(elements[pos].text) \in SKIP_SECTIONS)
              => content_dict' = content_dict]_vars

C19_Witness ==
    /\ pc = "extracted"
    /\ Len(elements) = 3
    /\ elements[1] = [name |-> "h2", text |-> Chars("References[edit]")]
    /\ elements[2].name = "h3"
    /\ elements[3].name = "p"
    /\ is_content_significant(clean_text(elements[3].text))
    /\ ~is_boilerplate(clean_text(elements[3].text))
    /\ content_dict = <<>>

\* the top-level part of a key: what precedes the first " > "
TopLevelPart(key) ==
    IF Contains(key, Chars(" > "))
    THEN SubSeq(key, 1, (CHOOSE n \in 0..Len(key) :
                            /\ SubSeq(key, n + 1, n + 3) = Chars(" > ")
                            /\ \A m \in 0..(n - 1) :
                                   SubSeq(key, m + 1, m + 3) # Chars(" > ")))
    ELSE key

\* C20: no key of the mapping built by extract_content names a boilerplate
\* section: no key is a name of the skip list, and no key has such a name as
\* its top-level part, the key being the cleaned heading.
C20_NoBoilerplateKey ==
    \A i \in 1..Len(content_dict) :
        /\ content_dict[i][1] \notin SKIP_SECTIONS
        /\ TopLevelPart(content_dict[i][1]) \notin SKIP_SECTIONS

\* C21: between two consecutive remote calls of one section there is
\* exactly one backoff sleep, whatever the kind of the failure: when a call
\* is issued or about to be issued, every earlier attempt of the section
\* was followed by one sleep of positive length, and no attempt by two.
C21_OneSleepBetweenCalls ==
    InSection =>
        /\ Len(sleeps) <= Len(outcomes)
        /\ \A k \in 1..Len(sleeps) : sleeps[k] > 0
        /\ pc = "in_flight" => Len(sleeps) = Len(outcomes)
        /\ (pc = "api_loop" /\ range_max_retries(attempt)) =>
               Len(sleeps) = Len(outcomes)

C21_Witness ==
    /\ pc = "in_flight"
    /\ Kinds = <<"500", "timeout">>
    /\ sleeps = <<1, 2>>

\* C22: on what extract_content builds, the summarizer's too-short skip
\* fires only for sections with an empty paragraph list: every kept
\* paragraph is cleaned and has at least 50 characters, so a section with a
\* paragraph passes is_section_valid, and a section without one does not.
C22_TooShortOnlyWhenEmpty ==
    \A i \in 1..Len(content_dict) :
        LET paragraphs == content_dict[i][2]
        IN  /\ \A k \in 1..Len(paragraphs) :
                   /\ Len(paragraphs[k]) >= min_section_length
                   /\ strip(paragraphs[k]) = paragraphs[k]
            /\ is_section_valid(join_paragraphs(paragraphs)) <=> paragraphs # <<>>

C22_Witness ==
    /\ pc = "extracted"
    /\ Len(content_dict) = 2
    /\ content_dict[1] = <<Chars("History"), <<>>>>
    /\ content_dict[2][1] = Chars("History > Early life")
    /\ Len(content_dict[2][2]) = 1
    /\ is_section_valid(join_paragraphs(content_dict[2][2]))
    /\ ~is_section_valid(join_paragraphs(content_dict[1][2]))

====
